---- MODULE Spec2Model ----
(***************************************************************************)
(* The DNS authentication checker of src/frontend/src/App.js: the App      *)
(* component's state (email, loading, result, error), the asynchronous     *)
(* handler handleCheck with one step per await, the resolver wrapper       *)
(* checkDNS, and the SPF / DMARC / DKIM evaluations and the aggregation    *)
(* that handleCheck performs inline.                                       *)
(*                                                                         *)
(* Strings are TLA+ strings; includes, replace, split and toLowerCase are  *)
(* computed character by character.                                        *)
(***************************************************************************)
EXTENDS Integers, Sequences, FiniteSets, TLC

\* Longest answer list a resolver response carries in the model.
MaxAnswers == 2

-----------------------------------------------------------------------------
(* String primitives of JavaScript used by the handler.                    *)

\* String.prototype.includes
Includes(s, sub) ==
    \E i \in 1..(Len(s) - Len(sub) + 1) : SubSeq(s, i, i + Len(sub) - 1) = sub

\* s.replace(/"/g, '')
RECURSIVE Unquote(_)
Unquote(s) ==
    IF Len(s) = 0 THEN ""
    ELSE IF SubSeq(s, 1, 1) = "\"" THEN Unquote(SubSeq(s, 2, Len(s)))
    ELSE SubSeq(s, 1, 1) \o Unquote(SubSeq(s, 2, Len(s)))

\* s.split(sep) for a one-character separator: the sequence of segments.
RECURSIVE Split(_, _)
Split(s, sep) ==
    IF ~Includes(s, sep) THEN <<s>>
    ELSE LET i == CHOOSE k \in 1..Len(s) :
                     /\ SubSeq(s, k, k) = sep
                     /\ \A j \in 1..(k - 1) : SubSeq(s, j, j) # sep
         IN  <<SubSeq(s, 1, i - 1)>> \o Split(SubSeq(s, i + 1, Len(s)), sep)

UpperCaseLetters == "ABCDEFGHIJKLMNOPQRSTUVWXYZ"
LowerCaseLetters == "abcdefghijklmnopqrstuvwxyz"

\* String.prototype.toLowerCase (ASCII letters)
RECURSIVE ToLowerCase(_)
ToLowerCase(s) ==
    IF Len(s) = 0 THEN ""
    ELSE LET c == SubSeq(s, 1, 1)
             lc == IF \E i \in 1..26 : SubSeq(UpperCaseLetters, i, i) = c
                   THEN LET i == CHOOSE k \in 1..26 : SubSeq(UpperCaseLetters, k, k) = c
                        IN  SubSeq(LowerCaseLetters, i, i)
                   ELSE c
         IN  lc \o ToLowerCase(SubSeq(s, 2, Len(s)))

-----------------------------------------------------------------------------
(* JavaScript values that flow out of the resolver.                        *)

\* null / an absent optional, and a present one
Null == <<>>
Some(x) == <<x>>

Undefined == [t |-> "undefined", v |-> <<>>]
\* a truthy value that is not an array (no filter method, no length)
Obj == [t |-> "object", v |-> <<>>]
Arr(items) == [t |-> "array", v |-> items]

\* One answer record of the resolver's JSON.
RawAnswer(d) == [data |-> d]

\* Sequences over S of length at most n
SeqUpTo(S, n) == UNION {[1..k -> S] : k \in 0..n}

-----------------------------------------------------------------------------
(* The record evaluations.                                                 *)

RecordStatus == {"valid", "warning", "missing", "invalid"}

SpfMissing ==
    [type |-> "SPF", status |-> "missing", record |-> Null,
     issues |-> <<"No SPF record found">>,
     recommendations |-> <<"Add an SPF record to your DNS",
                           "Example: v=spf1 include:_spf.google.com ~all">>]

\* A faulty variant of EvalSPF that takes the last matching answer.
EvalSPFLast(txtRecords) ==
    LET spfRecords == SelectSeq(txtRecords, LAMBDA r : Includes(r.data, "v=spf1"))
    IN  IF Len(spfRecords) = 0 THEN SpfMissing
        ELSE LET spfRecord == Unquote(spfRecords[Len(spfRecords)].data)
                 bad == ~Includes(spfRecord, "~all") /\ ~Includes(spfRecord, "-all")
             IN  [type |-> "SPF",
                  status |-> IF bad THEN "warning" ELSE "valid",
                  record |-> Some(spfRecord),
                  issues |-> IF bad
                             THEN <<"SPF record should end with an 'all' mechanism">>
                             ELSE <<>>,
                  recommendations |-> IF bad
                             THEN <<"Add ~all (softfail) or -all (hardfail) at the end">>
                             ELSE <<>>]

\* SPF: filter on v=spf1, first match, unquote, look for an all mechanism.
EvalSPF(txtRecords) ==
    LET spfRecords == SelectSeq(txtRecords, LAMBDA r : Includes(r.data, "v=spf1"))
    IN  IF Len(spfRecords) = 0 THEN SpfMissing
        ELSE LET spfRecord == Unquote(spfRecords[1].data)
                 issues == IF ~Includes(spfRecord, "~all") /\ ~Includes(spfRecord, "-all")
                           THEN <<"SPF record should end with an 'all' mechanism">>
                           ELSE <<>>
                 recommendations ==
                           IF ~Includes(spfRecord, "~all") /\ ~Includes(spfRecord, "-all")
                           THEN <<"Add ~all (softfail) or -all (hardfail) at the end">>
                           ELSE <<>>
             IN  [type |-> "SPF",
                  status |-> IF Len(issues) = 0 THEN "valid" ELSE "warning",
                  record |-> Some(spfRecord),
                  issues |-> issues,
                  recommendations |-> recommendations]

DmarcMissing ==
    [type |-> "DMARC", status |-> "missing", record |-> Null,
     issues |-> <<"No DMARC record found">>,
     recommendations |-> <<"Add a DMARC record to your DNS",
                           "Example: v=DMARC1; p=quarantine; rua=mailto:dmarc@yourdomain.com">>]

\* DMARC: filter on v=DMARC1, first match, unquote, look for p=none.
EvalDMARC(dmarcRecords) ==
    LET dmarcFound == SelectSeq(dmarcRecords, LAMBDA r : Includes(r.data, "v=DMARC1"))
    IN  IF Len(dmarcFound) = 0 THEN DmarcMissing
        ELSE LET dmarcRecord == Unquote(dmarcFound[1].data)
                 issues == IF Includes(dmarcRecord, "p=none")
                           THEN <<"DMARC policy is set to 'none' - emails won't be protected">>
                           ELSE <<>>
                 recommendations ==
                           IF Includes(dmarcRecord, "p=none")
                           THEN <<"Consider upgrading to p=quarantine or p=reject">>
                           ELSE <<>>
             IN  [type |-> "DMARC",
                  status |-> IF Len(issues) = 0 THEN "valid" ELSE "warning",
                  record |-> Some(dmarcRecord),
                  issues |-> issues,
                  recommendations |-> recommendations]

dkimSelectors == <<"default", "selector1", "google">>

\* A faulty variant of DkimMissing that keeps a record text.
DkimMissingWithRecord ==
    [type |-> "DKIM", status |-> "missing", record |-> Some("Selector: none"),
     issues |-> <<"No DKIM records found with common selectors">>,
     recommendations |-> <<"Set up DKIM signing for your email service",
                           "Common selectors checked: default, selector1, google">>]

DkimMissing ==
    [type |-> "DKIM", status |-> "missing", record |-> Null,
     issues |-> <<"No DKIM records found with common selectors">>,
     recommendations |-> <<"Set up DKIM signing for your email service",
                           "Common selectors checked: default, selector1, google">>]

DkimFound(selector) ==
    [type |-> "DKIM", status |-> "valid",
     record |-> Some("Selector: " \o selector \o " (found)"),
     issues |-> <<>>, recommendations |-> <<>>]

\* A faulty variant of OverallStatus that fails on a single missing record.
OverallStatusOneMissing(statuses) ==
    LET validCount == Len(SelectSeq(statuses, LAMBDA s : s = "valid"))
        missingCount == Len(SelectSeq(statuses, LAMBDA s : s = "missing"))
    IN  IF validCount >= 2 THEN "pass"
        ELSE IF missingCount >= 1 THEN "fail"
        ELSE "warning"

\* The aggregation over [spf.status, dmarc.status, dkim.status].
OverallStatus(statuses) ==
    LET validCount == Len(SelectSeq(statuses, LAMBDA s : s = "valid"))
        missingCount == Len(SelectSeq(statuses, LAMBDA s : s = "missing"))
    IN  IF validCount >= 2 THEN "pass"
        ELSE IF missingCount >= 2 THEN "fail"
        ELSE "warning"

-----------------------------------------------------------------------------
(* The resolver: what one fetch of dns.google/resolve can produce.         *)

\* TXT data the evaluations are run on: plain, quoted, split into several
\* quoted strings, and unrelated records.
SpfData ==
    {"v=spf1 -all",
     "\"v=spf1 include:_spf.google.com ~all\"",
     "v=spf1 include:_spf.google.com",
     "\"v=spf1 a -\"\"all\"",
     "\"v=s\"\"pf1 -all\"",
     "google-site-verification=abc"}

DmarcData ==
    {"v=DMARC1; p=reject",
     "\"v=DMARC1; p=none; rua=mailto:x@y.com\"",
     "v=DMARC1; p=reject; sp=none",
     "v=DMARC1; p=quarantine; pct=50",
     "v=DMARC1; p=none; sp=reject",
     "google-site-verification=abc"}

\* TXT data the resolver holds for the domains the App is run against.
ZoneSpf == {"v=spf1 -all", "v=spf1 include:_spf.google.com", "google-site-verification=abc"}
ZoneDmarc == {"v=DMARC1; p=reject", "\"v=DMARC1; p=none; rua=mailto:x@y.com\"",
              "google-site-verification=abc"}
ZoneDkim == {"v=DKIM1; k=rsa; p=MIGf"}

\* Answer lists over a pool of TXT data.
AnswerLists(pool) == SeqUpTo({RawAnswer(d) : d \in pool}, MaxAnswers)

\* The outcomes of fetch + response.json(): a rejection or a parse error
\* (ok = FALSE), or a JSON body whose Answer member is absent, an array of
\* answers, or some other truthy value.
Responses(pool) ==
    {[ok |-> FALSE, Answer |-> Undefined]}
    \cup {[ok |-> TRUE, Answer |-> a] :
            a \in {Undefined, Obj} \cup {Arr(s) : s \in AnswerLists(pool)}}

\* A faulty variant of checkDNS that lets a transport failure through as a value
\* the caller cannot evaluate.
checkDNSNoCatch(resp) ==
    IF ~resp.ok THEN Obj
    ELSE IF resp.Answer.t = "undefined" THEN Arr(<<>>)
    ELSE resp.Answer

\* checkDNS: data.Answer || [], and [] when fetch or json() throws.
checkDNS(resp) ==
    IF ~resp.ok THEN Arr(<<>>)
    ELSE IF resp.Answer.t = "undefined" THEN Arr(<<>>)
    ELSE resp.Answer

\* dkimRecords.length > 0, on whatever checkDNS returned
HasAnswers(value) == value.t = "array" /\ Len(value.v) > 0

-----------------------------------------------------------------------------
(* State.                                                                  *)

VARIABLES
    email,        \* useState(''): the text of the input
    loading,      \* useState(false)
    result,       \* useState(null): Null or Some(report)
    error,        \* useState('')
    call,         \* the invocations of handleCheck: locals and position
    resultOf,     \* history: the invocation whose setResult wrote result (0: none)
    latest,       \* history: the invocation started last (0: none)
    dropped,      \* history: a submit was attempted since then and started nothing
    evalIn,       \* an evaluation run on its own: which one, and its input
    evalOut       \* its output (Null before it ran)

vars == <<email, loading, result, error, call, resultOf, latest, dropped, evalIn, evalOut>>

\* Slots for invocations of handleCheck. handleCheck does not test loading
\* itself; the disabled submit button is what keeps a second invocation from
\* starting while one is in progress.
Calls == {1, 2}

\* Texts typed into the input.
Emails == {"not-an-email", "a@", "U@Ex.io"}

GenericError == "An error occurred while checking DNS records. Please try again."

QueryKinds == {"spf", "dmarc", "default", "selector1", "google"}

\* An invocation that has not run: every local undefined.
Fresh ==
    [pc |-> "idle", outcome |-> "none", email |-> "", domain |-> Null,
     spf |-> Null, dmarc |-> Null, dkim |-> Null, sel |-> 0,
     issued |-> <<>>,                            \* history: the names queried
     failed |-> {},                              \* history: queries whose fetch threw
     answer |-> Undefined, answerOf |-> "none",  \* history: what checkDNS returned last
     has |-> [k \in 1..3 |-> FALSE]]             \* the selectors the resolver answers for

Outstanding(i) == call[i].pc \in {"spf", "dmarc", "dkim", "hung"}

AppInit ==
    /\ email = ""
    /\ loading = FALSE
    /\ result = Null
    /\ error = ""
    /\ call = [i \in Calls |-> Fresh]
    /\ resultOf = 0
    /\ latest = 0
    /\ dropped = FALSE

Init ==
    /\ AppInit
    /\ evalIn = [fn |-> "none", arg |-> <<>>]
    /\ evalOut = Null

-----------------------------------------------------------------------------
(* Actions.                                                                *)

\* onChange of the input: setEmail(e.target.value)
SetEmail(e) ==
    /\ email' = e
    /\ UNCHANGED <<loading, result, error, call, resultOf, latest, dropped, evalIn, evalOut>>

\* A faulty variant of StartCheck that leaves the previous error message in place.
StartCheckKeepError(i) ==
    /\ email # ""
    /\ ~Outstanding(i)
    /\ latest' = i
    /\ dropped' = FALSE
    /\ result' = Null
    /\ resultOf' = 0
    /\ LET parts == Split(email, "@")
           c == [Fresh EXCEPT !.email = email]
       IN  IF Len(parts) < 2
           THEN /\ error' = GenericError
                /\ loading' = FALSE
                /\ call' = [call EXCEPT ![i] = [c EXCEPT !.pc = "done", !.outcome = "error"]]
           ELSE /\ error' = error
                /\ loading' = TRUE
                /\ call' = [call EXCEPT ![i] =
                              [c EXCEPT !.pc = "spf",
                                        !.domain = Some(ToLowerCase(parts[2])),
                                        !.issued = <<ToLowerCase(parts[2])>>]]
    /\ UNCHANGED <<email, evalIn, evalOut>>

\* handleCheck up to its first await: the early return on an empty email,
\* setLoading(true), setError(''), setResult(null), the domain, and the TXT
\* query for the domain. Without an '@' the toLowerCase call throws before
\* any await, so catch and finally run in the same step.
StartCheck(i) ==
    /\ email # ""
    /\ ~Outstanding(i)
    /\ latest' = i
    /\ dropped' = FALSE
    /\ result' = Null
    /\ resultOf' = 0
    /\ LET parts == Split(email, "@")
           c == [Fresh EXCEPT !.email = email]
       IN  IF Len(parts) < 2
           THEN /\ error' = GenericError
                /\ loading' = FALSE
                /\ call' = [call EXCEPT ![i] = [c EXCEPT !.pc = "done", !.outcome = "error"]]
           ELSE /\ error' = ""
                /\ loading' = TRUE
                /\ call' = [call EXCEPT ![i] =
                              [c EXCEPT !.pc = "spf",
                                        !.domain = Some(ToLowerCase(parts[2])),
                                        !.issued = <<ToLowerCase(parts[2])>>]]
    /\ UNCHANGED <<email, evalIn, evalOut>>

\* The invocation a new submit runs as: the first one not in progress.
NextCall == CHOOSE i \in Calls : ~Outstanding(i) /\ \A j \in Calls : j < i => Outstanding(j)

\* The submit button, disabled while loading, firing the form's onSubmit.
Submit ==
    /\ ~loading
    /\ \E i \in Calls : ~Outstanding(i)
    /\ StartCheck(NextCall)

\* A press of the submit button while it is disabled: no submit event is
\* dispatched and handleCheck does not run.
SubmitWhileLoading ==
    /\ loading
    /\ email # ""
    /\ ~dropped
    /\ dropped' = TRUE
    /\ UNCHANGED <<email, loading, result, error, call, resultOf, latest, evalIn, evalOut>>

\* catch (err) { setError(...) } finally { setLoading(false) }
Catch(i, c) ==
    /\ error' = GenericError
    /\ loading' = FALSE
    /\ call' = [call EXCEPT ![i] = [c EXCEPT !.pc = "done", !.outcome = "error"]]
    /\ UNCHANGED <<email, result, resultOf, latest, dropped, evalIn, evalOut>>

\* The report handed to setResult (its timestamp, a clock reading, left out).
Report(c) ==
    [email |-> c.email, domain |-> c.domain[1],
     overall_status |-> OverallStatus(<<c.spf[1].status, c.dmarc[1].status, c.dkim[1].status>>),
     spf |-> c.spf, dmarc |-> c.dmarc, dkim |-> c.dkim]

\* The aggregation, setResult({...}) and finally { setLoading(false) }.
Finish(i, c) ==
    /\ result' = Some(Report(c))
    /\ resultOf' = i
    /\ loading' = FALSE
    /\ call' = [call EXCEPT ![i] = [c EXCEPT !.pc = "done", !.outcome = "report"]]
    /\ UNCHANGED <<email, error, latest, dropped, evalIn, evalOut>>

\* What one settled await leaves in the invocation's history.
Settled(c, kind, resp) ==
    [c EXCEPT !.failed = IF resp.ok THEN @ ELSE @ \cup {kind},
              !.answer = checkDNS(resp), !.answerOf = kind]

\* The TXT query for the domain settles: the SPF evaluation, then the query
\* at _dmarc.<domain>. A value without filter throws into the catch.
SpfReply(i, resp) ==
    /\ call[i].pc = "spf"
    /\ LET txtRecords == checkDNS(resp)
           c == Settled(call[i], "spf", resp)
       IN  IF txtRecords.t # "array"
           THEN Catch(i, c)
           ELSE /\ call' = [call EXCEPT ![i] =
                              [c EXCEPT !.spf = Some(EvalSPF(txtRecords.v)),
                                        !.pc = "dmarc",
                                        !.issued = Append(c.issued, "_dmarc." \o c.domain[1])]]
                /\ UNCHANGED <<email, loading, result, error, resultOf, latest,
                               dropped, evalIn, evalOut>>

\* The _dmarc query settles: the DMARC evaluation, the DKIM default, and the
\* query for the first selector. From here on the resolver's answers for
\* the three selectors are those of has.
DmarcReply(i, resp) ==
    /\ call[i].pc = "dmarc"
    /\ LET dmarcRecords == checkDNS(resp)
           c == Settled(call[i], "dmarc", resp)
       IN  IF dmarcRecords.t # "array"
           THEN Catch(i, c)
           ELSE /\ \E h \in [1..3 -> BOOLEAN] :
                     call' = [call EXCEPT ![i] =
                              [c EXCEPT !.dmarc = Some(EvalDMARC(dmarcRecords.v)),
                                        !.dkim = Some(DkimMissing),
                                        !.sel = 1,
                                        !.has = h,
                                        !.pc = "dkim",
                                        !.issued = Append(c.issued,
                                            dkimSelectors[1] \o "._domainkey." \o c.domain[1])]]
                /\ UNCHANGED <<email, loading, result, error, resultOf, latest,
                               dropped, evalIn, evalOut>>

\* A faulty variant of DkimReply without the break: a later selector that answers
\* replaces an earlier one.
DkimReplyNoBreak(i, resp) ==
    /\ call[i].pc = "dkim"
    /\ HasAnswers(checkDNS(resp)) = call[i].has[call[i].sel]
    /\ LET dkimRecords == checkDNS(resp)
           selector == dkimSelectors[call[i].sel]
           c == [Settled(call[i], selector, resp) EXCEPT
                    !.dkim = IF HasAnswers(dkimRecords) THEN Some(DkimFound(selector)) ELSE @]
       IN  IF c.sel < Len(dkimSelectors)
           THEN /\ call' = [call EXCEPT ![i] =
                              [c EXCEPT !.sel = c.sel + 1,
                                        !.issued = Append(c.issued,
                                            dkimSelectors[c.sel + 1] \o "._domainkey." \o c.domain[1])]]
                /\ UNCHANGED <<email, loading, result, error, resultOf, latest,
                               dropped, evalIn, evalOut>>
           ELSE Finish(i, c)

\* A selector query settles: dkimRecords.length > 0 takes the selector and
\* leaves the loop; otherwise the next selector is queried, and after the
\* last one the report is assembled.
DkimReply(i, resp) ==
    /\ call[i].pc = "dkim"
    /\ HasAnswers(checkDNS(resp)) = call[i].has[call[i].sel]
    /\ LET dkimRecords == checkDNS(resp)
           selector == dkimSelectors[call[i].sel]
           c == Settled(call[i], selector, resp)
       IN  IF HasAnswers(dkimRecords)
           THEN Finish(i, [c EXCEPT !.dkim = Some(DkimFound(selector))])
           ELSE IF c.sel < Len(dkimSelectors)
           THEN /\ call' = [call EXCEPT ![i] =
                              [c EXCEPT !.sel = c.sel + 1,
                                        !.issued = Append(c.issued,
                                            dkimSelectors[c.sel + 1] \o "._domainkey." \o c.domain[1])]]
                /\ UNCHANGED <<email, loading, result, error, resultOf, latest,
                               dropped, evalIn, evalOut>>
           ELSE Finish(i, c)

\* The pending fetch never settles: nothing in checkDNS bounds it.
Hang(i) ==
    /\ call[i].pc \in {"spf", "dmarc", "dkim"}
    /\ call' = [call EXCEPT ![i].pc = "hung"]
    /\ UNCHANGED <<email, loading, result, error, resultOf, latest, dropped, evalIn, evalOut>>

\* The continuation of invocation i after its pending await.
Resume(i) ==
    \/ \E resp \in Responses(ZoneSpf) : SpfReply(i, resp)
    \/ \E resp \in Responses(ZoneDmarc) : DmarcReply(i, resp)
    \/ \E resp \in Responses(ZoneDkim) : DkimReply(i, resp)

Next ==
    \/ \E e \in Emails : SetEmail(e)
    \/ Submit
    \/ SubmitWhileLoading
    \/ \E i \in Calls : Resume(i)
    \/ \E i \in Calls : Hang(i)

\* The App as rendered: checks start from the submit button.
Spec == Init /\ [][Next]_vars

\* A continuation runs once its await settles.
FairSpec == Spec /\ \A i \in Calls : WF_vars(Resume(i))

-----------------------------------------------------------------------------
(* The evaluations run on their own, over every input of the pools.        *)

StatusTriples == [1..3 -> RecordStatus]

EvalInputs ==
    {[fn |-> "agg", arg |-> t] : t \in StatusTriples}
    \cup {[fn |-> "spf", arg |-> l] : l \in AnswerLists(SpfData)}
    \cup {[fn |-> "dmarc", arg |-> l] : l \in AnswerLists(DmarcData)}

EvalInit ==
    /\ AppInit
    /\ evalIn \in EvalInputs
    /\ evalOut = Null

Aggregate ==
    /\ evalIn.fn = "agg"
    /\ evalOut = Null
    /\ evalOut' = Some(OverallStatus(evalIn.arg))
    /\ UNCHANGED <<email, loading, result, error, call, resultOf, latest, dropped, evalIn>>

EvaluateSPF ==
    /\ evalIn.fn = "spf"
    /\ evalOut = Null
    /\ evalOut' = Some(EvalSPF(evalIn.arg))
    /\ UNCHANGED <<email, loading, result, error, call, resultOf, latest, dropped, evalIn>>

EvaluateDMARC ==
    /\ evalIn.fn = "dmarc"
    /\ evalOut = Null
    /\ evalOut' = Some(EvalDMARC(evalIn.arg))
    /\ UNCHANGED <<email, loading, result, error, call, resultOf, latest, dropped, evalIn>>

EvalNext ==
    \/ Aggregate
    \/ EvaluateSPF
    \/ EvaluateDMARC

EvalSpec == EvalInit /\ [][EvalNext]_vars

-----------------------------------------------------------------------------
(* Properties.                                                             *)

Count(t, status) == Cardinality({k \in 1..3 : t[k] = status})

\* The verdict the three statuses call for, by counts alone.
ExpectedOverall(t) ==
    IF Count(t, "valid") >= 2 THEN "pass"
    ELSE IF Count(t, "missing") >= 2 THEN "fail"
    ELSE "warning"

Permutations3 == {p \in [1..3 -> 1..3] : \A a, b \in 1..3 : p[a] = p[b] => a = b}

\* C1: for every triple of statuses drawn from {valid, warning, missing,
\* invalid} the verdict is pass when at least two are valid, otherwise fail
\* when at least two are missing, otherwise warning, and every permutation
\* of the triple gets the same verdict.
C1_Aggregator ==
    (evalIn.fn = "agg" /\ evalOut # Null) =>
        /\ evalOut[1] = ExpectedOverall(evalIn.arg)
        /\ \A p \in Permutations3 :
              OverallStatus([k \in 1..3 |-> evalIn.arg[p[k]]]) = evalOut[1]

C1_Witness ==
    /\ evalIn.fn = "agg"
    /\ evalIn.arg = <<"warning", "valid", "missing">>
    /\ evalOut = Some("warning")

\* The first selector, in list order, the resolver answers for (0: none).
FirstAnswering(has) ==
    IF \E k \in 1..3 : has[k]
    THEN CHOOSE k \in 1..3 : has[k] /\ \A j \in 1..(k - 1) : ~has[j]
    ELSE 0

\* C2: whatever the resolver answers for default, selector1 and google, a
\* report names the earliest selector in list order that has an answer
\* (status valid), is missing exactly when none of the three has one, and
\* the queries issued are those of a sequential search that stops at the
\* first hit.
C2_DkimPriority ==
    result # Null =>
        LET c == call[resultOf]
            first == FirstAnswering(c.has)
            dkim == result[1].dkim[1]
        IN  /\ (dkim.status = "missing") = (first = 0)
            /\ first = 0 => dkim = DkimMissing
            /\ first # 0 =>
                 /\ dkim.status = "valid"
                 /\ dkim.record = Some("Selector: " \o dkimSelectors[first] \o " (found)")
            /\ Len(c.issued) = 2 + (IF first = 0 THEN 3 ELSE first)
            /\ \A k \in 1..(Len(c.issued) - 2) :
                 c.issued[2 + k] = dkimSelectors[k] \o "._domainkey." \o c.domain[1]

C2_Witness ==
    /\ result # Null
    /\ call[resultOf].has = <<TRUE, FALSE, TRUE>>
    /\ result[1].dkim[1].record = Some("Selector: default (found)")

\* An email without a domain part: no '@', or nothing after it.
NoDomainPart(e) ==
    LET parts == Split(e, "@") IN Len(parts) < 2 \/ parts[2] = ""

\* C3: a check on an email with no domain part fails, with its error
\* surfaced, and issues no DNS query at any point.
C3_InvalidInput ==
    \A i \in Calls :
        (call[i].pc # "idle" /\ NoDomainPart(call[i].email)) =>
            /\ call[i].pc = "done"
            /\ call[i].outcome = "error"
            /\ call[i].issued = <<>>
            /\ i = latest => error # ""

\* The evaluation a query feeds.
RecordFrom(c, kind) ==
    IF kind = "spf" THEN c.spf ELSE IF kind = "dmarc" THEN c.dmarc ELSE c.dkim

\* C4 as stated: a transport failure never ends the check in the error
\* state, and the record evaluated from the failed query is missing.
C4_FailedQueryMissing ==
    \A i \in Calls :
        LET c == call[i]
        IN  /\ c.outcome = "error" => (c.domain = Null \/ c.answerOf \notin c.failed)
            /\ c.outcome = "report" =>
                 \A kind \in c.failed : RecordFrom(c, kind)[1].status = "missing"

\* C4, amended: a transport failure never ends the check in the error state;
\* an SPF or DMARC record evaluated from the failed query is missing; a
\* selector whose query failed counts as having no answer; and each record
\* is evaluated from the answers of its own query, whatever failed before.
C4_FailureFolded ==
    \A i \in Calls :
        LET c == call[i]
        IN  /\ c.outcome = "error" => (c.domain = Null \/ c.answerOf \notin c.failed)
            /\ "spf" \in c.failed => c.spf = Some(SpfMissing)
            /\ "dmarc" \in c.failed => c.dmarc = Some(DmarcMissing)
            /\ \A k \in 1..3 :
                 (dkimSelectors[k] \in c.failed /\ c.dkim # Null) =>
                     c.dkim[1].record # DkimFound(dkimSelectors[k]).record
            /\ (c.failed \cap {"default", "selector1", "google"} = {"default", "selector1", "google"}
                  /\ c.outcome = "report") => c.dkim = Some(DkimMissing)
            /\ (c.answerOf = "spf" /\ c.answer.t = "array") => c.spf = Some(EvalSPF(c.answer.v))
            /\ (c.answerOf = "dmarc" /\ c.answer.t = "array") =>
                 c.dmarc = Some(EvalDMARC(c.answer.v))
            /\ (c.outcome = "report" /\ i = resultOf) => result = Some(Report(c))

C4_Witness ==
    /\ result # Null
    /\ call[resultOf].failed = {"spf", "default"}
    /\ result[1].spf[1].status = "missing"
    /\ result[1].dmarc[1].status = "valid"
    /\ result[1].dkim[1].record = Some("Selector: selector1 (found)")

C6_NoPartialReport ==
    /\ ~(result # Null /\ error # "")
    /\ error \in {"", GenericError}
    /\ result # Null =>
         /\ result[1].spf # Null /\ result[1].dmarc # Null /\ result[1].dkim # Null
         /\ result[1].overall_status \in {"pass", "warning", "fail"}
    /\ \A i \in Calls :
         LET c == call[i]
         IN  c.outcome = "error" =>
               /\ c.pc = "done"
               /\ i = latest => (error = GenericError /\ result = Null /\ ~loading)
               /\ c.dmarc = Null /\ c.dkim = Null
               /\ Len(c.issued) = (IF c.domain = Null THEN 0 ELSE IF c.spf = Null THEN 1 ELSE 2)

C6_Witness ==
    \E i \in Calls :
        /\ call[i].outcome = "error"
        /\ call[i].spf # Null
        /\ call[i].answerOf = "dmarc"
        /\ error = GenericError
        /\ result = Null

\* C7: every evaluation of a report has one of the four statuses, no
\* record when it is missing, and at least one issue when it is warning,
\* missing or invalid.
C7_EvaluationShape ==
    result # Null =>
        \A ev \in {result[1].spf[1], result[1].dmarc[1], result[1].dkim[1]} :
            /\ ev.status \in RecordStatus
            /\ ev.status = "missing" => ev.record = Null
            /\ ev.status \in {"warning", "missing", "invalid"} => Len(ev.issues) > 0

C7_Witness ==
    /\ result # Null
    /\ result[1].spf[1].status = "warning"
    /\ result[1].dmarc[1].status = "missing"
    /\ result[1].dkim[1].status = "missing"

\* The place of the first answer whose data contains needle (0: none).
FirstMatch(answers, needle) ==
    IF \E k \in 1..Len(answers) : Includes(answers[k].data, needle)
    THEN CHOOSE k \in 1..Len(answers) :
            /\ Includes(answers[k].data, needle)
            /\ \A j \in 1..(k - 1) : ~Includes(answers[j].data, needle)
    ELSE 0

\* The SPF evaluation an answer text calls for when the all mechanism is
\* looked for in text.
SpfVerdictOn(ev, text) ==
    IF ~Includes(text, "~all") /\ ~Includes(text, "-all")
    THEN /\ ev.status = "warning"
         /\ ev.issues = <<"SPF record should end with an 'all' mechanism">>
         /\ ev.recommendations = <<"Add ~all (softfail) or -all (hardfail) at the end">>
    ELSE /\ ev.status = "valid"
         /\ ev.issues = <<>>
         /\ ev.recommendations = <<>>

\* C8 as stated: SPF is missing exactly when no answer contains v=spf1, and
\* is otherwise decided by the first such answer: warning when that answer
\* contains neither ~all nor -all, valid otherwise.
C8_SpfByAnswer ==
    (evalIn.fn = "spf" /\ evalOut # Null) =>
        LET k == FirstMatch(evalIn.arg, "v=spf1")
        IN  /\ (evalOut[1].status = "missing") = (k = 0)
            /\ k # 0 => SpfVerdictOn(evalOut[1], evalIn.arg[k].data)

\* C8, amended: ... warning when that answer, with its double quotes
\* removed, contains neither ~all nor -all, valid otherwise; the record
\* reported is that unquoted text.
C8_SpfByUnquotedAnswer ==
    (evalIn.fn = "spf" /\ evalOut # Null) =>
        LET k == FirstMatch(evalIn.arg, "v=spf1")
        IN  /\ (evalOut[1].status = "missing") = (k = 0)
            /\ k = 0 => evalOut[1] = SpfMissing
            /\ k # 0 =>
                 /\ SpfVerdictOn(evalOut[1], Unquote(evalIn.arg[k].data))
                 /\ evalOut[1].record = Some(Unquote(evalIn.arg[k].data))

C8_Witness ==
    /\ evalIn.fn = "spf"
    /\ evalOut # Null
    /\ Len(evalIn.arg) = 2
    /\ evalIn.arg[1].data = "\"v=spf1 a -\"\"all\""
    /\ evalIn.arg[2].data = "v=spf1 include:_spf.google.com"
    /\ evalOut[1].status = "valid"

\* s without its leading spaces
RECURSIVE TrimLeft(_)
TrimLeft(s) ==
    IF Len(s) > 0 /\ SubSeq(s, 1, 1) = " " THEN TrimLeft(SubSeq(s, 2, Len(s))) ELSE s

\* The value of the policy tag p of a DMARC record ("" when it has none).
PolicyOf(record) ==
    LET tags == Split(record, ";")
        isP(k) == Len(TrimLeft(tags[k])) >= 2 /\ SubSeq(TrimLeft(tags[k]), 1, 2) = "p="
    IN  IF \E k \in 1..Len(tags) : isP(k)
        THEN LET k == CHOOSE n \in 1..Len(tags) : isP(n) /\ \A j \in 1..(n - 1) : ~isP(j)
             IN  SubSeq(TrimLeft(tags[k]), 3, Len(TrimLeft(tags[k])))
        ELSE ""

\* C9: the DMARC status of the first answer containing v=DMARC1 is decided
\* by its policy tag alone: warning when the policy is none, valid
\* otherwise, whatever the other tags of the record are.
C9_DmarcByPolicy ==
    (evalIn.fn = "dmarc" /\ evalOut # Null) =>
        LET k == FirstMatch(evalIn.arg, "v=DMARC1")
        IN  k # 0 =>
              evalOut[1].status =
                  (IF PolicyOf(Unquote(evalIn.arg[k].data)) = "none" THEN "warning" ELSE "valid")

\* C10: every started check leaves the pending state, with a report or an
\* error message set.
C10_CheckEnds ==
    loading ~> (~loading /\ (result # Null \/ error # ""))

====
